---- MODULE Spec2Model ----
(***************************************************************************)
(* Model of src/dbmr.py: the Direct Bayesian Model Reduction estimator     *)
(* estimate_dbmr and its likelihood dbmr_likelihood.                       *)
(*                                                                         *)
(* Numbers.  The floor 1e-16 of the code is written eps.  Every entry of   *)
(* Gamma is 1 or eps, so every quantity the code derives from the integer  *)
(* counts is a + b*eps with a, b naturals; such a value is the record      *)
(* [a, b].  An entry of Lambda is the quotient of two such values, kept as *)
(* [num, den]; 0/0 (den = 0) is the NaN numpy produces.  Logarithms are    *)
(* kept in millionths of a nat, computed from the prime factorisation so   *)
(* that log(x*y) = log(x) + log(y) holds exactly; a value a + b*eps with   *)
(* a > 0 is read at its leading term a (b*eps is below the last digit of a *)
(* double next to a >= 1).  A scalar result is [nan, v].                    *)
(***************************************************************************)
EXTENDS Integers, Sequences, FiniteSets

VARIABLES C, K, convergence, max_iter,      \* the arguments of the call
          N, Lambda, Gamma, lls, delta_ll,  \* the locals of estimate_dbmr
          Lambda0,                          \* history: Lambda as of line 34
          printed,                          \* the diagnostic of line 58 was emitted
          pc

vars == <<C, K, convergence, max_iter, N, Lambda, Gamma, lls, delta_ll,
          Lambda0, printed, pc>>

\* ---- bounds of the model ------------------------------------------------
MaxCount == 1
MaxDraw == 1
MaxIter == 2

Unit == 1000 * 1000                       \* fixed-point representation of 1.0

Shapes == {<<1, 1>>, <<2, 2>>, <<1, 2>>, <<2, 1>>}
KSet == {0, 1, 2}
ConvSet == {0 - Unit, 0, Unit \div 2, Unit}
Scenario == << <<10, 0>>, <<0, 10>> >>
Matrices == (UNION {[1..s[1] -> [1..s[2] -> 0..MaxCount]] : s \in Shapes})
              \cup {Scenario}

\* ---- arithmetic ---------------------------------------------------------
RECURSIVE SumUpTo(_, _)
SumUpTo(f, n) == IF n = 0 THEN 0 ELSE f[n] + SumUpTo(f, n - 1)

Rows(M) == Len(M)
Cols(M) == IF Len(M) = 0 THEN 0 ELSE Len(M[1])

One == [a |-> 1, b |-> 0]
Floor == [a |-> 0, b |-> 1]

Num(x) == [nan |-> FALSE, v |-> x]
NaN == [nan |-> TRUE, v |-> 0]
Gt(x, y) == ~x.nan /\ ~y.nan /\ x.v > y.v
Le(x, y) == ~x.nan /\ ~y.nan /\ x.v <= y.v
AbsDiff(x, y) ==
    IF x.nan \/ y.nan THEN NaN
    ELSE Num(IF x.v >= y.v THEN x.v - y.v ELSE y.v - x.v)

LnPrime(p) ==
    CASE p = 2 -> 693147
      [] p = 3 -> 1098612
      [] p = 5 -> 1609438
      [] p = 7 -> 1945910
      [] p = 11 -> 2397895
      [] p = 13 -> 2564949

SmallestFactor(n) == CHOOSE p \in 2..n : n % p = 0 /\ \A q \in 2..(p - 1) : n % q # 0

RECURSIVE Ln(_)
Ln(n) == IF n = 1 THEN 0
         ELSE LET p == SmallestFactor(n) IN LnPrime(p) + Ln(n \div p)

LnEps == 0 - 16 * (LnPrime(2) + LnPrime(5))

IsNaN(x) == x.den.a = 0 /\ x.den.b = 0

\* np.log(np.maximum(x, 1e-16)) for one entry x of Lambda
LogFloor(x) ==
    IF IsNaN(x) THEN NaN
    ELSE IF x.den.a > 0
         THEN IF x.num.a > 0 THEN Num(Ln(x.num.a) - Ln(x.den.a))
              ELSE IF x.num.b > x.den.a
                   THEN Num(Ln(x.num.b) - Ln(x.den.a) + LnEps)
                   ELSE Num(LnEps)
         ELSE IF x.num.b > 0 THEN Num(Ln(x.num.b) - Ln(x.den.b))
              ELSE Num(LnEps)

\* ---- lines 33-34: random Lambda, columns normalised ---------------------
\* random_sample draws from [0, 1); the draws are kept as integer weights, which
\* fixes the normalised columns.  A column whose N draws are all exactly 0.0 is
\* not drawn.
Draws(n, k) ==
    {r \in [1..n -> [1..k -> 0..MaxDraw]] :
        \A kk \in 1..k : \E i \in 1..n : r[i][kk] > 0}

InitLambda(r, n, k) ==
    [i \in 1..n |-> [kk \in 1..k |->
        [num |-> [a |-> r[i][kk], b |-> 0],
         den |-> [a |-> SumUpTo([ii \in 1..n |-> r[ii][kk]], n), b |-> 0]]]]

\* ---- lines 38/49: einsum('ij,jk->ki', C, log Lambda), argmax over k -----
Score(Cm, L, n, k, i) ==
    IF \E j \in 1..n : LogFloor(L[j][k]).nan THEN NaN
    ELSE Num(SumUpTo([j \in 1..n |-> Cm[i][j] * LogFloor(L[j][k]).v], n))

\* mutant of ArgMax: np.argmin in place of np.argmax
ArgMaxAsArgMin(s, k) ==
    IF \E kk \in 1..k : s[kk].nan
    THEN CHOOSE kk \in 1..k : s[kk].nan /\ \A q \in 1..(kk - 1) : ~s[q].nan
    ELSE CHOOSE kk \in 1..k : /\ \A q \in 1..k : s[q].v >= s[kk].v
                              /\ \A q \in 1..(kk - 1) : s[q].v > s[kk].v

ArgMax(s, k) ==
    IF \E kk \in 1..k : s[kk].nan
    THEN CHOOSE kk \in 1..k : s[kk].nan /\ \A q \in 1..(kk - 1) : ~s[q].nan
    ELSE CHOOSE kk \in 1..k : /\ \A q \in 1..k : s[q].v <= s[kk].v
                              /\ \A q \in 1..(kk - 1) : s[q].v < s[kk].v

\* the latent state observed state i is assigned to (the score vector is
\* evaluated once, then handed to ArgMax)
Assigned(Cm, L, n, k, i) ==
    CHOOSE s \in 1..k :
        \E v \in {[kk \in 1..k |-> Score(Cm, L, n, kk, i)]} : s = ArgMax(v, k)

\* ---- lines 37 and 48: Gamma filled with the floor ------------------------
FloorGamma(n, k) == [kk \in 1..k |-> [i \in 1..n |-> Floor]]

\* mutant of ResetGamma: line 48 left out, the old assignment stays in Gamma
ResetGammaSkipped(G, n, k) == G

ResetGamma(G, n, k) == FloorGamma(n, k)

\* ---- lines 38-39 and 49-50: Gamma[s, i] = 1 -----------------------------
SetAssignments(G, Cm, L, n, k) ==
    [kk \in 1..k |-> [i \in 1..n |->
        IF kk = Assigned(Cm, L, n, k, i) THEN One ELSE G[kk][i]]]

\* ---- lines 46-47: Lambda from C and Gamma --------------------------------
Raw(Cm, G, n, k, i) ==
    [a |-> SumUpTo([j \in 1..n |-> Cm[i][j] * G[k][j].a], n),
     b |-> SumUpTo([j \in 1..n |-> Cm[i][j] * G[k][j].b], n)]

RowSum(Cm, G, n, k) ==
    [a |-> SumUpTo([i \in 1..n |-> Raw(Cm, G, n, k, i).a], n),
     b |-> SumUpTo([i \in 1..n |-> Raw(Cm, G, n, k, i).b], n)]

UpdateLambda(Cm, G, n, k) ==
    [i \in 1..n |-> [kk \in 1..k |->
        [num |-> Raw(Cm, G, n, kk, i), den |-> RowSum(Cm, G, n, kk)]]]

\* ---- lines 8-9: dbmr_likelihood -----------------------------------------
\* einsum('ij,kj,ik->', Count, Gamma, log Lambda).  One NaN in log Lambda makes
\* the sum NaN.  The terms weighted by a floor entry of Gamma (1e-16 * count *
\* log) lie below the fixed-point resolution and contribute 0.
dbmr_likelihood(L, G, Count, n, k) ==
    IF \E i \in 1..n, kk \in 1..k : LogFloor(L[i][kk]).nan THEN NaN
    ELSE Num(SumUpTo([i \in 1..n |->
             SumUpTo([j \in 1..n |->
                 SumUpTo([kk \in 1..k |->
                     Count[i][j] * G[kk][j].a * LogFloor(L[i][kk]).v], k)], n)], n))

\* ---- the call -----------------------------------------------------------
Init ==
    /\ C \in Matrices
    /\ K \in KSet
    /\ convergence \in {Num(c) : c \in ConvSet}
    /\ max_iter \in 0..MaxIter
    /\ N = 0
    /\ Lambda = <<>>
    /\ Lambda0 = <<>>
    /\ Gamma = <<>>
    /\ lls = <<>>
    /\ delta_ll = Num(0)
    /\ printed = FALSE
    /\ pc = "start"

\* lines 30-43.  numpy raises ValueError at line 38 when the einsum operands
\* disagree (C not square) or the argmax runs over an empty axis (K = 0).
Initialize ==
    /\ pc = "start"
    /\ N' = Rows(C)
    /\ IF K < 1 \/ Cols(C) # Rows(C)
       THEN /\ pc' = "error"
            /\ UNCHANGED <<Lambda, Lambda0, Gamma, lls, delta_ll>>
       ELSE /\ \E r \in Draws(Rows(C), K) :
                 \E L \in {InitLambda(r, Rows(C), K)} :
                 /\ Lambda' = L
                 /\ Lambda0' = L
                 /\ Gamma' = SetAssignments(FloorGamma(Rows(C), K), C, L, Rows(C), K)
            /\ lls' = <<>>
            /\ delta_ll' = Num(Unit)
            /\ pc' = "loop"
    /\ UNCHANGED <<C, K, convergence, max_iter, printed>>

\* lines 45-59: one pass of the while loop
Iterate ==
    /\ pc = "loop"
    /\ Gt(delta_ll, convergence)
    /\ \E L \in {UpdateLambda(C, Gamma, N, K)} :
       \E G \in {SetAssignments(ResetGamma(Gamma, N, K), C, L, N, K)} :
       \E ll \in {dbmr_likelihood(L, G, C, N, K)} :
          /\ Lambda' = L
          /\ Gamma' = G
          /\ delta_ll' = (IF Len(lls) = 0 THEN Num(Unit)
                          ELSE AbsDiff(ll, lls[Len(lls)]))
          /\ lls' = Append(lls, ll)
          /\ IF Len(lls) + 1 > max_iter
             THEN printed' = TRUE /\ pc' = "done"
             ELSE printed' = printed /\ pc' = "loop"
    /\ UNCHANGED <<C, K, convergence, max_iter, N, Lambda0>>

\* line 45 false, then line 60
Return ==
    /\ pc = "loop"
    /\ ~Gt(delta_ll, convergence)
    /\ pc' = "done"
    /\ UNCHANGED <<C, K, convergence, max_iter, N, Lambda, Lambda0, Gamma, lls,
                   delta_ll, printed>>

Next == Initialize \/ Iterate \/ Return

Spec == Init /\ [][Next]_vars

FairSpec == Spec /\ WF_vars(Next)

\* ---- vocabulary of the properties ----------------------------------------
Square == Cols(C) = Rows(C)
ValidInput == Square /\ K >= 1 /\ max_iter >= 1 /\ Le(Num(0), convergence)
Estimated == pc \in {"loop", "done"}
LoopEntered == ValidInput /\ Gt(Num(Unit), convergence)
Total(Cm, n) == SumUpTo([i \in 1..n |-> SumUpTo(Cm[i], n)], n)

\* the entries of column k of L add up to exactly 1
ColumnSumsToOne(L, n, k) ==
    /\ \A i \in 1..n : ~IsNaN(L[i][k]) /\ L[i][k].den = L[1][k].den
    /\ SumUpTo([i \in 1..n |-> L[i][k].num.a], n) = L[1][k].den.a
    /\ SumUpTo([i \in 1..n |-> L[i][k].num.b], n) = L[1][k].den.b

\* column j of G holds 1 once and the floor everywhere else
OneHotColumn(G, k, j) ==
    /\ Cardinality({kk \in 1..k : G[kk][j] = One}) = 1
    /\ \A kk \in 1..k : G[kk][j] \in {One, Floor}

\* the latent state column j of G selects
Selected(G, k, j) == CHOOSE kk \in 1..k : G[kk][j] = One

\* x is the quotient r / t
IsQuotient(x, r, t) ==
    /\ ~IsNaN(x)
    /\ t > 0
    /\ x.num.a * t = r * x.den.a
    /\ x.num.b * t = r * x.den.b

\* x is 1 up to a multiple of eps / x is a multiple of eps
NearOne(x) == ~IsNaN(x) /\ x.den.a > 0 /\ x.num.a = x.den.a
NearZero(x) == ~IsNaN(x) /\ x.den.a > 0 /\ x.num.a = 0

\* sum_i C[i,j] * log(max(Lambda[i,k], eps)): column j of C against column k
ColumnScore(Cm, L, n, k, j) ==
    IF \E i \in 1..n : LogFloor(L[i][k]).nan THEN NaN
    ELSE Num(SumUpTo([i \in 1..n |-> Cm[i][j] * LogFloor(L[i][k]).v], n))

\* C1: from initialization on, after every Lambda update and in the returned
\* value, every one of the K columns of Lambda sums to 1 (all-zero C included).
C1_LambdaColumnsSumToOne ==
    (ValidInput /\ Estimated) => \A k \in 1..K : ColumnSumsToOne(Lambda, N, k)

\* C2: from initialization on, after every Gamma recomputation and in the
\* returned value, every column of Gamma has exactly one entry equal to 1 and
\* its other K-1 entries equal to the floor 1e-16.
C2_GammaOneHot ==
    (ValidInput /\ Estimated) => \A j \in 1..N : OneHotColumn(Gamma, K, j)

\* C2 witness: a returned Gamma whose assignment the iterations have changed
\* since initialization
C2_Witness ==
    /\ ValidInput /\ pc = "done" /\ K = 2 /\ N = 2 /\ Len(lls) >= 2
    /\ Gamma # SetAssignments(FloorGamma(N, K), C, Lambda0, N, K)

\* C3: for every valid input the returned trace lls is non-empty and has at
\* most max_iter + 1 entries.
C3_TraceNonEmptyAndBounded ==
    (ValidInput /\ pc = "done") => (Len(lls) >= 1 /\ Len(lls) <= max_iter + 1)

\* C4: a call with a non-square C, K < 1, max_iter < 1 or convergence < 0 fails
\* with an error before any iteration: nothing is updated, nothing is recorded.
C4_InvalidArgumentRejected ==
    (~ValidInput /\ pc # "start") => (pc = "error" /\ lls = <<>> /\ Lambda = <<>>)

\* C5: for K = 1 and any C the returned Gamma is one row of ones and the
\* returned Lambda[i,0] is the i-th row sum of C divided by the total of C.
C5_SingleLatentStateMarginal ==
    (K = 1 /\ LoopEntered /\ pc = "done") =>
        /\ \A j \in 1..N : Gamma[1][j] = One
        /\ \A i \in 1..N : IsQuotient(Lambda[i][1], SumUpTo(C[i], N), Total(C, N))

\* the returned value of the 2x2 scenario: two distinct latent states, each
\* column of Lambda concentrated on the observed state assigned to it
ScenarioResolved ==
    /\ \A j \in 1..2 : OneHotColumn(Gamma, 2, j)
    /\ Selected(Gamma, 2, 1) # Selected(Gamma, 2, 2)
    /\ \A j \in 1..2 : /\ NearOne(Lambda[j][Selected(Gamma, 2, j)])
                       /\ NearZero(Lambda[3 - j][Selected(Gamma, 2, j)])

ScenarioCall == C = Scenario /\ K = 2 /\ LoopEntered /\ pc = "done"

\* C6 as stated: for C = [[10,0],[0,10]], K = 2 and every column-stochastic
\* initial Lambda, the returned Gamma separates the two observed states and the
\* returned Lambda is near-diagonal up to a permutation of its columns.
C6_ScenarioEveryInit ==
    (ScenarioCall /\ \A k \in 1..2 : ColumnSumsToOne(Lambda0, 2, k))
        => ScenarioResolved

\* the two columns of the initial Lambda differ: L[1][1] # L[1][2]
ColumnsDiffer(L) ==
    L[1][1].num.a * L[1][2].den.a # L[1][2].num.a * L[1][1].den.a

\* C6 as amended: the same, for every column-stochastic initial Lambda whose
\* two columns differ.
C6_ScenarioDistinctInit ==
    (ScenarioCall /\ (\A k \in 1..2 : ColumnSumsToOne(Lambda0, 2, k))
                  /\ ColumnsDiffer(Lambda0))
        => ScenarioResolved

C6_Witness ==
    /\ ScenarioCall /\ Len(lls) >= 2
    /\ \A k \in 1..2 : ColumnSumsToOne(Lambda0, 2, k)
    /\ ColumnsDiffer(Lambda0)
    /\ ScenarioResolved

\* C7: at initialization and after every iteration, the entry of column j of
\* Gamma that holds 1 is at the lowest k maximising
\* sum_i C[i,j] * log(max(Lambda[i,k], 1e-16)), for every C.
C7_ArgmaxOfColumnScore ==
    (ValidInput /\ Estimated) =>
        \A j \in 1..N :
            \E v \in {[k \in 1..K |-> ColumnScore(C, Lambda, N, k, j)]} :
                Gamma[ArgMax(v, K)][j] = One

\* C8: for every valid input the call never stops with fewer than two recorded
\* likelihoods, and when it stops with len(lls) <= max_iter the last two
\* entries of lls differ by at most convergence.
C8_TwoEvaluationsBeforeStop ==
    (ValidInput /\ pc = "done") =>
        /\ Len(lls) >= 2
        /\ Len(lls) <= max_iter =>
               Le(AbsDiff(lls[Len(lls)], lls[Len(lls) - 1]), convergence)

\* C9: the loop runs at most max(1, max_iter + 1) times, and a finished call
\* stopped either at the max_iter cutoff or on delta <= convergence.
C9_BoundedAndOnlyTwoStops ==
    /\ Len(lls) <= (IF max_iter + 1 > 1 THEN max_iter + 1 ELSE 1)
    /\ pc = "done" => (Len(lls) > max_iter \/ Le(delta_ll, convergence))

\* the part of C9 that holds: the iteration bound, and termination
IterationBound == Len(lls) <= (IF max_iter + 1 > 1 THEN max_iter + 1 ELSE 1)
Terminates == <>(pc \in {"done", "error"})

\* C10: whenever the 'Did not converge' diagnostic is emitted, the delta of the
\* last two recorded likelihoods is strictly greater than convergence.
C10_DiagnosticOnlyWhenNotConverged ==
    printed => Gt(delta_ll, convergence)

====
